---------------------------- MODULE Spec2Model ----------------------------
(***************************************************************************)
(* Verification model of zerolync/core: the credential-sync protocol       *)
(* (portal utils/credentialSync), the SDK wallet hooks (useSolanaPasskey,  *)
(* useSuiPasskey), the host side of Sui signing and the portal's           *)
(* WalletAction component.                                                 *)
(***************************************************************************)
EXTENDS Integers, Sequences, FiniteSets, TLC

(***************************************************************************)
(* Bounds of the model and constants of the program.                       *)
(***************************************************************************)
\* the milliseconds Date.now() can return when a call starts: 0..MaxTime
MaxTime == 0
\* number of request messages the responder handles in one run
MaxHandled == 2
\* number of calls of one function, and the last millisecond of the clock
MaxCalls == 2
MaxClock == 1
\* the default of the maxRetries parameter
maxRetries == 3
\* the default of sendResponse's maxAttempts parameter
maxAttempts == 3

Null == "null"
\* a message without requestId / without data
NoId == <<"none", 0>>
NoData == [present |-> FALSE, credentialId |-> ""]

\* The origin of the configured signing surface and any other origin.
PortalOrigin == "portal"
OtherOrigin == "other"
Origins == {PortalOrigin, OtherOrigin}
\* The allow-list the specification derives from the signing-surface URL.
AllowedOrigins == {PortalOrigin}

\* The two requesting functions; each is called once in the embedded window.
Calls == {"requestCredentialsFromParent", "requestSigningCredentialsFromParent"}
\* the credential ids of the model; "" is the empty (falsy) string
CredA == "credA"
CredB == "credB"

(***************************************************************************)
(* State.                                                                  *)
(***************************************************************************)
VARIABLES
  \* ---- credential sync, requester (one entry per call) ----
  inIframe,     \* isIframe() of the window the calls run in
  pc,           \* "idle" | "awaiting" | "settled"
  messageId,    \* the call's messageId (its requestId)
  retryCount,   \* the call's retryCount
  listening,    \* whether the call's handleResponse is a registered listener
  timeoutId,    \* the pending timer: "none" | "retry" | "final"
  result,       \* what the promise resolved with: "pending", Null or a credentialId
  how,          \* "none" | "response" | "timeout" | "noiframe"
  by,           \* requestId and origin of the message that settled the call (history)
  sent,         \* CREDENTIALS_REQUEST messages posted by the call
  acks,         \* SYNC_CREDENTIALS_ACK postMessage calls made by the call
  ackThrew,     \* some acknowledgment's postMessage threw (history)
  late,         \* a credentials message reached the window after a fulfilment (history)
  now,          \* Date.now() of the window, in milliseconds
  issued,       \* the messageIds generated by the calls of each function so far (history)
  \* ---- credential sync, responder ----
  credentials,  \* what getCredentials() returns in the parent
  jobs,         \* the responder's sendResponse chains, one per handled request
  posted,       \* the responses posted so far, each with the origin of its target
  received,     \* the types of the messages handleMessage has returned from (history)
  \* ---- SDK: the wallet record and the two hooks (host page) ----
  wallet,       \* the record stored under 'zerolync-wallet' (what JSON.parse gives)
  corrupt,      \* the text stored under 'zerolync-wallet' is not valid JSON
  blocked,      \* access to localStorage throws (storage is disabled for the page)
  returned,     \* what the last call of PasskeyStorage.getWallet() did (history)
  isConnecting, \* useSuiPasskey's isConnecting state
  legacy,       \* whether keys of the legacy (lazorkit) key set are stored
  suiAddressRef, \* useSolanaPasskey's suiAddressRef.current
  solPc,        \* useSolanaPasskey.connect: "idle" | "connecting"
  address,      \* useSuiPasskey's address state
  error,        \* useSuiPasskey's error state (the Error's message, or "none")
  refBy,        \* origin of the message suiAddressRef was captured from (history)
  lastOp,       \* the operation on the wallet record that settled last (history)
  \* ---- SDK: useSuiPasskey.signAndExecuteTransaction (one call per transaction) ----
  isSigning,    \* useSuiPasskey's isSigning state
  sgPc,         \* "idle" | "waiting" | "executing" | "done" | "failed"
  sgListening,  \* whether the call's handleMessage is a registered listener
  sgTimer,      \* whether the call's 5-minute timer is pending
  sgErr,        \* the message of the Error the call threw, or "none"
  submitted,    \* the transaction whose signature the call submitted, or "none"
  popup,        \* the window named 'portal': whether open, and the transaction in its URL
  userSig,      \* byte length of user_signature in the envelope the call submitted
  heard,        \* the message that settled the call's promise (history)
  dropped,      \* a message of another origin reached a waiting call (history)
  \* ---- portal: the WalletAction component of one signing surface ----
  topology,     \* "iframe" (embedded frame) | "popup" (window with an opener) |
                \* "webview" (React Native WebView: window.ReactNativeWebView is set)
  stored,       \* whether localStorage of the portal holds CREDENTIAL_ID
  url,          \* the query parameters of the page: action, message, sui_tx
  reqNo,        \* the number of requests (page loads) the surface has received
  hPc,          \* handleAction: "none" (no page) | "syncing" | "done"
  pCreds,       \* credentials.length > 0
  isLoading,    \* the isLoading state
  pIsSigning,   \* the isSigning state
  ceremony,     \* the number of ceremonies in flight (signMessage / signSuiTransaction)
  clicks,       \* the number of handleSign / handleSignSui runs for this request
  out,          \* the terminal messages built for this request, each with the window
                \* it was posted to ("none": it was posted to no window)
  refused,      \* handleAction ended without making the request signable
  env,          \* navigator and window of the portal page (what detectPlatform reads)
  platformInfo, \* the platformInfo state
  published,    \* window.__webauthn_options
  pStore,       \* localStorage of the portal: CREDENTIAL_ID and PUBLIC_KEY
  authPc,       \* the connect ceremony awaited: "none" | "signIn" | "signUp" | "authenticate"
  ceremonies,   \* the hardware ceremonies started so far (history)
  refusals,     \* the functions that threw before starting a ceremony (history)
  currentEnvironment, \* the currentEnvironment state: "browser" | "expo"
  \* ---- portal: utilities (webauthn, error messages) ----
  txBytes,      \* the txBytes argument of each signSuiTransaction call (base64 text)
  challenge,    \* the challenge each call passed to navigator.credentials.get
  inCustomTabs, \* getBrowserInfo().isCustomTabs of the page
  thrown,       \* the Error a ceremony rejects with, for each kind of failure
  shown,        \* the message each mapping function returned for it, or NoMessage
  ctPc,         \* each createPasskeyForCustomTabs call: "idle" | "importing" | "patched" | "done"
  originalOptions, \* the originalOptions constant of each call
  optionsBefore \* window.__webauthn_options before the first call started (history)

requesterVars == <<inIframe, pc, messageId, retryCount, listening, timeoutId, result,
                   how, by, sent, acks, ackThrew, late, now, issued>>
responderVars == <<credentials, jobs, posted, received>>

storeVars == <<corrupt, blocked, returned, isConnecting>>
walletVars == <<wallet, legacy, suiAddressRef, solPc, address, error, refBy, lastOp, storeVars>>
signHist == <<userSig, heard, dropped>>
signVars == <<isSigning, sgPc, sgListening, sgTimer, sgErr, submitted, popup, signHist>>
sdkVars == <<walletVars, signVars>>

challengeVars == <<txBytes, challenge>>
errorVars == <<inCustomTabs, thrown, shown>>
customTabsVars == <<ctPc, originalOptions, optionsBefore>>
utilVars == <<challengeVars, errorVars, customTabsVars>>

portalVars == <<utilVars, topology, stored, url, reqNo, hPc, pCreds, isLoading, pIsSigning,
                ceremony, clicks, out, refused, env, platformInfo, published, pStore,
                authPc, ceremonies, refusals, currentEnvironment>>

vars == <<requesterVars, responderVars, sdkVars, portalVars>>

(***************************************************************************)
(* Credential sync: messages.                                              *)
(***************************************************************************)
\* the prefix each function gives its messageId
Prefix(r) ==
  IF r = "requestCredentialsFromParent" THEN "credential-request"
                                        ELSE "signing-credential-request"

\* `credential-request-${Date.now()}` / `signing-credential-request-${Date.now()}`
MessageIdOf(r, t) == <<Prefix(r), t>>

Times == 0..MaxTime
RequestIds == {MessageIdOf(r, t) : r \in Calls, t \in Times}

\* SyncMessage, with the origin of the window that posted it
SyncMsg(type, requestId, data, origin) ==
  [type |-> type, requestId |-> requestId, data |-> data, origin |-> origin]

\* data of a response: { credentialId, publickey, timestamp }
CredData(c) == [present |-> TRUE, credentialId |-> c]

NoEvent == [requestId |-> NoId, origin |-> "none"]

\* What can be posted into the embedded window, by the parent or by any other
\* window: responses to this or another request, stale or duplicate ones,
\* from the portal's origin or from another one.
ChildMsgs ==
  {SyncMsg(t, i, d, o) :
     t \in {"SYNC_CREDENTIALS", "CREDENTIALS_RESPONSE"},
     i \in RequestIds \cup {NoId},
     d \in {NoData, CredData(""), CredData(CredA)},
     o \in Origins}
  \cup {SyncMsg("SYNC_CREDENTIALS_ACK", NoId, NoData, o) : o \in Origins}

(***************************************************************************)
(* Credential sync: requester.                                             *)
(***************************************************************************)
\* The first lines of handleResponse: the condition under which a message
\* event is taken as the credentials.
Accepts(e) ==
  /\ e.type \in {"SYNC_CREDENTIALS", "CREDENTIALS_RESPONSE"}
  /\ e.data.present

\* resolve(...) of handleResponse: the credential, or null when credentialId is empty
Resolved(e) == IF e.data.credentialId # "" THEN e.data.credentialId ELSE Null

\* handleResponse without its removeEventListener
HandleResponseKeepsListener(L, e, threw) ==
  /\ acks' = [r \in Calls |-> IF r \in L THEN acks[r] + 1 ELSE acks[r]]
  /\ ackThrew' = (ackThrew \/ (threw /\ L # {}))
  /\ timeoutId' = [r \in Calls |-> IF r \in L THEN "none" ELSE timeoutId[r]]
  /\ listening' = listening
  /\ result' = [r \in Calls |-> IF r \in L THEN Resolved(e) ELSE result[r]]
  /\ how' = [r \in Calls |-> IF r \in L THEN "response" ELSE how[r]]
  /\ by' = [r \in Calls |->
             IF r \in L THEN [requestId |-> e.requestId, origin |-> e.origin] ELSE by[r]]
  /\ pc' = [r \in Calls |-> IF r \in L THEN "settled" ELSE pc[r]]

\* handleResponse run on event e by the calls in L (the registered listeners):
\* acknowledge (a throw of postMessage is caught), clearTimeout,
\* removeEventListener, resolve.
HandleResponse(L, e, threw) ==
  /\ acks' = [r \in Calls |-> IF r \in L THEN acks[r] + 1 ELSE acks[r]]
  /\ ackThrew' = (ackThrew \/ (threw /\ L # {}))
  /\ timeoutId' = [r \in Calls |-> IF r \in L THEN "none" ELSE timeoutId[r]]
  /\ listening' = [r \in Calls |-> IF r \in L THEN FALSE ELSE listening[r]]
  /\ result' = [r \in Calls |-> IF r \in L THEN Resolved(e) ELSE result[r]]
  /\ how' = [r \in Calls |-> IF r \in L THEN "response" ELSE how[r]]
  /\ by' = [r \in Calls |->
             IF r \in L THEN [requestId |-> e.requestId, origin |-> e.origin] ELSE by[r]]
  /\ pc' = [r \in Calls |-> IF r \in L THEN "settled" ELSE pc[r]]

\* the listeners handleResponse is run by when event e is dispatched
Listeners(e) == IF Accepts(e) THEN {r \in Calls : listening[r]} ELSE {}

\* A message event in the embedded window: every registered handleResponse
\* runs on it, in one turn of the event loop.
MessageEvent(e, threw) ==
  /\ inIframe
  /\ HandleResponse(Listeners(e), e, threw)
  /\ late' = (late \/ (Accepts(e) /\ \E r \in Calls : how[r] = "response"))
  /\ UNCHANGED <<inIframe, now, messageId, issued, retryCount, sent, responderVars, sdkVars, portalVars>>

\* sendRequest comparing with <= : one retry more
TimerForOffByOne(n) == IF n <= maxRetries THEN "retry" ELSE "final"

\* The timer sendRequest arms: the retry timer while retryCount < maxRetries,
\* the final timer otherwise.
TimerFor(n) == IF n < maxRetries THEN "retry" ELSE "final"

\* sendRequest() of call r with retryCount n: addEventListener, post the
\* CREDENTIALS_REQUEST, arm the timer.
SendRequest(r, n) ==
  /\ listening' = [listening EXCEPT ![r] = TRUE]
  /\ sent' = [sent EXCEPT ![r] = @ + 1]
  /\ timeoutId' = [timeoutId EXCEPT ![r] = TimerFor(n)]

\* requestCredentialsFromParent / requestSigningCredentialsFromParent called
\* at millisecond t.
RequestFromParent(r, t) ==
  /\ pc[r] = "idle"
  /\ IF ~inIframe
       THEN /\ pc' = [pc EXCEPT ![r] = "settled"]
            /\ result' = [result EXCEPT ![r] = Null]
            /\ how' = [how EXCEPT ![r] = "noiframe"]
            /\ UNCHANGED <<messageId, issued, retryCount, listening, timeoutId, sent>>
       ELSE /\ pc' = [pc EXCEPT ![r] = "awaiting"]
            /\ messageId' = [messageId EXCEPT ![r] = MessageIdOf(r, t)]
            /\ issued' = [issued EXCEPT ![r] = Append(@, MessageIdOf(r, t))]
            /\ retryCount' = [retryCount EXCEPT ![r] = 0]
            /\ SendRequest(r, 0)
            /\ UNCHANGED <<result, how>>
  /\ UNCHANGED <<inIframe, now, by, acks, ackThrew, late, responderVars, sdkVars, portalVars>>

\* The retry timer of sendRequest fires: retryCount++, removeEventListener,
\* sendRequest().
RetryTimeout(r) ==
  /\ timeoutId[r] = "retry"
  /\ retryCount' = [retryCount EXCEPT ![r] = @ + 1]
  /\ SendRequest(r, retryCount[r] + 1)
  /\ UNCHANGED <<inIframe, now, pc, messageId, issued, result, how, by, acks, ackThrew, late,
                 responderVars, sdkVars, portalVars>>

\* the final timer without its resolve(null)
FinalTimeoutNoResolve(r) ==
  /\ timeoutId[r] = "final"
  /\ timeoutId' = [timeoutId EXCEPT ![r] = "none"]
  /\ listening' = [listening EXCEPT ![r] = FALSE]
  /\ UNCHANGED <<inIframe, now, pc, result, how, messageId, issued, retryCount, by, sent, acks,
                 ackThrew, late, responderVars, sdkVars, portalVars>>

\* The final timer of sendRequest fires: removeEventListener, resolve(null).
FinalTimeout(r) ==
  /\ timeoutId[r] = "final"
  /\ timeoutId' = [timeoutId EXCEPT ![r] = "none"]
  /\ listening' = [listening EXCEPT ![r] = FALSE]
  /\ pc' = [pc EXCEPT ![r] = "settled"]
  /\ result' = [result EXCEPT ![r] = Null]
  /\ how' = [how EXCEPT ![r] = "timeout"]
  /\ UNCHANGED <<inIframe, now, messageId, issued, retryCount, by, sent, acks, ackThrew, late,
                 responderVars, sdkVars, portalVars>>

\* A further call of function r after its previous call has settled: a new
\* promise with its own messageId, retryCount and timer.
CallAgain(r) ==
  /\ pc[r] = "settled"
  /\ Len(issued[r]) < MaxCalls
  /\ pc' = [pc EXCEPT ![r] = "idle"]
  /\ result' = [result EXCEPT ![r] = "pending"]
  /\ how' = [how EXCEPT ![r] = "none"]
  /\ by' = [by EXCEPT ![r] = NoEvent]
  /\ sent' = [sent EXCEPT ![r] = 0]
  /\ acks' = [acks EXCEPT ![r] = 0]
  /\ UNCHANGED <<inIframe, now, messageId, issued, retryCount, listening, timeoutId,
                 ackThrew, late, responderVars, sdkVars, portalVars>>

\* a millisecond passes
Tick ==
  /\ now < MaxClock
  /\ now' = now + 1
  /\ UNCHANGED <<inIframe, pc, messageId, issued, retryCount, listening, timeoutId, result,
                 how, by, sent, acks, ackThrew, late, responderVars, sdkVars, portalVars>>

RequesterInit ==
  /\ inIframe \in BOOLEAN
  /\ pc = [r \in Calls |-> "idle"]
  /\ messageId = [r \in Calls |-> NoId]
  /\ retryCount = [r \in Calls |-> 0]
  /\ listening = [r \in Calls |-> FALSE]
  /\ timeoutId = [r \in Calls |-> "none"]
  /\ result = [r \in Calls |-> "pending"]
  /\ how = [r \in Calls |-> "none"]
  /\ by = [r \in Calls |-> NoEvent]
  /\ sent = [r \in Calls |-> 0]
  /\ acks = [r \in Calls |-> 0]
  /\ ackThrew = FALSE
  /\ late = FALSE
  /\ now = 0
  /\ issued = [r \in Calls |-> <<>>]

RequesterNext ==
  \/ \E r \in Calls, t \in Times : RequestFromParent(r, t)
  \/ \E r \in Calls : RetryTimeout(r)
  \/ \E r \in Calls : FinalTimeout(r)
  \/ \E e \in ChildMsgs :
       \E threw \in (IF Listeners(e) = {} THEN {FALSE} ELSE BOOLEAN) : MessageEvent(e, threw)

(***************************************************************************)
(* Credential sync: responder (setupCredentialSyncHandler).                *)
(***************************************************************************)
\* What can be posted into the parent window: the requests of the embedded
\* window and the messages of windows of any other origin.
ParentMsgs ==
  {SyncMsg(t, i, NoData, o) :
     t \in {"CREDENTIALS_REQUEST", "SYNC_CREDENTIALS", "SYNC_CREDENTIALS_ACK"},
     i \in {MessageIdOf(r, 0) : r \in Calls} \cup {NoId},
     o \in Origins}

\* the response handleMessage builds for request m
ResponseTo(m) ==
  SyncMsg(IF m.type = "CREDENTIALS_REQUEST" THEN "CREDENTIALS_RESPONSE"
                                            ELSE "SYNC_CREDENTIALS",
          m.requestId, CredData(credentials[1]), PortalOrigin)

\* event.source?.postMessage(response, { targetOrigin: '*' }): the response
\* goes to the window that sent the request, whatever its origin
PostResponse(resp, target) ==
  posted' = posted \cup {[resp |-> resp, target |-> target]}

\* handleMessage of the responder on message m: the early returns, then
\* sendResponse() (attempt 0), which schedules the next attempt.
HandleMessage(m) ==
  /\ IF \/ m.type \notin {"CREDENTIALS_REQUEST", "SYNC_CREDENTIALS"}
        \/ Len(credentials) = 0
       THEN UNCHANGED <<jobs, posted>>
       ELSE /\ Len(jobs) < MaxHandled
            /\ PostResponse(ResponseTo(m), m.origin)
            /\ jobs' = Append(jobs, [request |-> m, attempts |-> 1])
  /\ received' = received \cup {m.type}
  /\ UNCHANGED <<credentials, requesterVars, sdkVars, portalVars>>

\* sendResponse scheduling one attempt more than maxAttempts allows
SendResponseTimerOneMore(j) ==
  /\ j \in 1..Len(jobs)
  /\ jobs[j].attempts < maxAttempts + 1
  /\ PostResponse(ResponseTo(jobs[j].request), jobs[j].request.origin)
  /\ jobs' = [jobs EXCEPT ![j].attempts = @ + 1]
  /\ UNCHANGED <<credentials, received, requesterVars, sdkVars, portalVars>>

\* The timer of sendResponse fires: the next attempt of chain j.
SendResponseTimer(j) ==
  /\ j \in 1..Len(jobs)
  /\ jobs[j].attempts < maxAttempts
  /\ PostResponse(ResponseTo(jobs[j].request), jobs[j].request.origin)
  /\ jobs' = [jobs EXCEPT ![j].attempts = @ + 1]
  /\ UNCHANGED <<credentials, received, requesterVars, sdkVars, portalVars>>

\* the credentials state of the parent page: the stored credential, if any,
\* followed by the credentials added since the page loaded
ResponderInit ==
  /\ credentials \in {<<>>, <<CredA>>, <<CredB>>, <<CredB, CredA>>}
  /\ jobs = <<>>
  /\ posted = {}
  /\ received = {}

ResponderNext ==
  \/ \E m \in ParentMsgs : HandleMessage(m)
  \/ \E j \in 1..MaxHandled : SendResponseTimer(j)

(***************************************************************************)
(* SDK: the stored wallet record (PasskeyStorage, WalletInfo).             *)
(***************************************************************************)
Creds == {CredA, CredB}
\* no address (null, or an absent field)
NoAddr == <<"", "">>
\* the addresses and the public key that belong to credential c
SolAddr(c) == <<"solana", c>>
SuiAddr(c) == <<"sui", c>>
PublicKeyOf(c) == <<"publicKey", c>>
NoKey == <<"publicKey", "">>

\* a chain entry of WalletInfo: { address, credentialId }, or absent
NoEntry == [present |-> FALSE, address |-> NoAddr, credentialId |-> ""]
Entry(a, c) == [present |-> TRUE, address |-> a, credentialId |-> c]

\* PasskeyStorage.getWallet() === null
NoWallet ==
  [present |-> FALSE, passkey |-> [credentialId |-> "", publicKey |-> NoKey],
   solana |-> NoEntry, sui |-> NoEntry]

\* what lazorConnect() resolves with for the passkey the user picked
ConnectResult(c) ==
  [smartWallet |-> SolAddr(c), credentialId |-> c, passkeyPubkey |-> PublicKeyOf(c)]

\* the messages the host page can receive from the portal or another window
PortalMsgs ==
  {[origin |-> o, type |-> t, suiAddress |-> a] :
     o \in Origins,
     t \in {"WALLET_CONNECTED", "connect-result", "sui-sign-result"},
     a \in {NoAddr} \cup {SuiAddr(c) : c \in Creds}}

(***************************************************************************)
(* SDK: useSolanaPasskey.                                                  *)
(***************************************************************************)
\* handlePortalMessage: capture suiAddress from a message of the portal
HandlePortalMessage(e) ==
  /\ IF /\ e.origin = PortalOrigin
        /\ e.type \in {"connect-result", "WALLET_CONNECTED"}
        /\ e.suiAddress # NoAddr
       THEN suiAddressRef' = e.suiAddress /\ refBy' = e.origin
       ELSE UNCHANGED <<suiAddressRef, refBy>>
  /\ UNCHANGED <<wallet, legacy, lastOp, storeVars, solPc, address, error, signVars,
                 requesterVars, responderVars, portalVars>>

\* connect, up to the await of lazorConnect(): clear the captured suiAddress
SolanaConnect ==
  /\ solPc = "idle"
  /\ solPc' = "connecting"
  /\ suiAddressRef' = NoAddr
  /\ refBy' = "none"
  /\ UNCHANGED <<wallet, legacy, lastOp, storeVars, address, error, signVars, requesterVars, responderVars, portalVars>>

\* the wallet record connect builds from result, the stored record and the ref
WalletInfoOf(res, storedWallet, ref) ==
  [present |-> TRUE,
   solana |-> Entry(res.smartWallet, res.credentialId),
   passkey |-> [credentialId |-> res.credentialId, publicKey |-> res.passkeyPubkey],
   sui |-> IF ref # NoAddr THEN Entry(ref, res.credentialId)
           ELSE IF storedWallet.present /\ storedWallet.sui.present THEN storedWallet.sui
           ELSE NoEntry]

\* connect, after lazorConnect() resolved with the passkey c: save the record
SolanaConnected(c) ==
  /\ solPc = "connecting"
  /\ solPc' = "idle"
  /\ wallet' = WalletInfoOf(ConnectResult(c), wallet, suiAddressRef)
  /\ corrupt' = FALSE
  /\ lastOp' = "connect"
  /\ legacy' = TRUE
  /\ UNCHANGED <<blocked, returned, isConnecting, suiAddressRef, refBy, address, error, signVars, requesterVars, responderVars, portalVars>>

\* connect, when lazorConnect() rejects: nothing is saved
SolanaConnectFailed ==
  /\ solPc = "connecting"
  /\ solPc' = "idle"
  /\ UNCHANGED <<wallet, legacy, lastOp, storeVars, suiAddressRef, refBy, address, error, signVars,
                 requesterVars, responderVars, portalVars>>

\* disconnect: await lazorDisconnect(), clearWallet, clearLazorKitStorage
SolanaDisconnect(ok) ==
  /\ IF ok THEN wallet' = NoWallet /\ legacy' = FALSE /\ corrupt' = FALSE
           ELSE UNCHANGED <<wallet, legacy, corrupt>>
  /\ lastOp' = IF ok THEN "disconnect" ELSE "disconnect rejected"
  /\ UNCHANGED <<blocked, returned, isConnecting, suiAddressRef, refBy, solPc, address, error, signVars,
                 requesterVars, responderVars, portalVars>>

\* resetWallet: clearLazorKitStorage, clearWallet
ResetWallet ==
  /\ wallet' = NoWallet
  /\ legacy' = FALSE
  /\ corrupt' = FALSE
  /\ lastOp' = "resetWallet"
  /\ UNCHANGED <<blocked, returned, isConnecting, suiAddressRef, refBy, solPc, address, error, signVars,
                 requesterVars, responderVars, portalVars>>

(***************************************************************************)
(* SDK: useSuiPasskey connect / disconnect.                                *)
(***************************************************************************)
NotFoundError == "Passkey credential or Sui address not found. Please connect Solana first."

\* connect without the check of the stored sui entry
SuiConnectNoSuiCheck ==
  /\ IF wallet.present /\ wallet.passkey.credentialId # ""
       THEN address' = wallet.sui.address /\ error' = "none"
       ELSE error' = NotFoundError /\ UNCHANGED address
  /\ corrupt' = FALSE
  /\ isConnecting' = FALSE
  /\ UNCHANGED <<wallet, legacy, lastOp, blocked, returned, suiAddressRef, refBy, solPc, signVars,
                 requesterVars, responderVars, portalVars>>

\* connect: setIsConnecting(true), setError(null), read the stored record
\* (getWallet removes an entry that is not valid JSON); set address, or set
\* error and throw; finally setIsConnecting(false)
SuiConnect ==
  /\ IF wallet.present /\ wallet.passkey.credentialId # "" /\ wallet.sui.present
       THEN address' = wallet.sui.address /\ error' = "none"
       ELSE error' = NotFoundError /\ UNCHANGED address
  /\ corrupt' = FALSE
  /\ isConnecting' = FALSE
  /\ UNCHANGED <<wallet, legacy, lastOp, blocked, returned, suiAddressRef, refBy, solPc, signVars,
                 requesterVars, responderVars, portalVars>>

\* disconnect: forget the address and save the record without its sui entry
SuiDisconnect ==
  /\ address' = NoAddr
  /\ wallet' = IF wallet.present THEN [wallet EXCEPT !.sui = NoEntry] ELSE wallet
  /\ corrupt' = FALSE
  /\ lastOp' = "sui disconnect"
  /\ UNCHANGED <<legacy, blocked, returned, isConnecting, suiAddressRef, refBy, solPc, error, signVars,
                 requesterVars, responderVars, portalVars>>

\* What another script of the page (or an older version of the SDK) can do:
\* write a text that is not valid JSON under the wallet key.
CorruptEntry ==
  /\ ~corrupt
  /\ corrupt' = TRUE
  /\ wallet' = NoWallet
  /\ UNCHANGED <<legacy, lastOp, blocked, returned, isConnecting, suiAddressRef, refBy, solPc,
                 address, error, signVars, requesterVars, responderVars, portalVars>>

\* storage is readable, holds valid JSON or nothing, and getWallet was not called
NoResult == [threw |-> FALSE, called |-> FALSE, value |-> NoWallet, corruptEntry |-> FALSE]

\* the records saveWallet is called with
StoredWallets ==
  {WalletInfoOf(ConnectResult(c), NoWallet, ref) :
     c \in Creds, ref \in {NoAddr} \cup {SuiAddr(d) : d \in Creds}}

\* getWallet without its try / catch
GetWalletNoCatch ==
  /\ IF blocked \/ corrupt
       THEN /\ returned' = [threw |-> TRUE, called |-> TRUE, value |-> NoWallet,
                            corruptEntry |-> corrupt]
            /\ UNCHANGED corrupt
       ELSE /\ returned' = [threw |-> FALSE, called |-> TRUE, value |-> wallet,
                            corruptEntry |-> corrupt]
            /\ corrupt' = FALSE
  /\ lastOp' = "getWallet"
  /\ UNCHANGED <<wallet, legacy, blocked, isConnecting, suiAddressRef, refBy, solPc,
                 address, error, signVars, requesterVars, responderVars, portalVars>>

\* PasskeyStorage.getWallet(): getItem and JSON.parse; when either throws,
\* removeItem and return null. With storage disabled getItem throws, and so
\* does removeItem in the catch block.
GetWallet ==
  /\ IF blocked
       THEN /\ returned' = [threw |-> TRUE, called |-> TRUE, value |-> NoWallet,
                            corruptEntry |-> corrupt]
            /\ UNCHANGED corrupt
       ELSE /\ returned' = [threw |-> FALSE, called |-> TRUE,
                            value |-> IF corrupt THEN NoWallet ELSE wallet,
                            corruptEntry |-> corrupt]
            /\ corrupt' = FALSE
  /\ lastOp' = "getWallet"
  /\ UNCHANGED <<wallet, legacy, blocked, isConnecting, suiAddressRef, refBy, solPc,
                 address, error, signVars, requesterVars, responderVars, portalVars>>

\* PasskeyStorage.saveWallet(w): setItem (it throws when storage is disabled)
SaveWallet(w) ==
  /\ IF blocked THEN UNCHANGED <<wallet, corrupt>>
                ELSE wallet' = w /\ corrupt' = FALSE
  /\ lastOp' = "saveWallet"
  /\ UNCHANGED <<legacy, blocked, returned, isConnecting, suiAddressRef, refBy, solPc,
                 address, error, signVars, requesterVars, responderVars, portalVars>>

\* PasskeyStorage.clearWallet(): removeItem
ClearWallet ==
  /\ IF blocked THEN UNCHANGED <<wallet, corrupt>>
                ELSE wallet' = NoWallet /\ corrupt' = FALSE
  /\ lastOp' = "clearWallet"
  /\ UNCHANGED <<legacy, blocked, returned, isConnecting, suiAddressRef, refBy, solPc,
                 address, error, signVars, requesterVars, responderVars, portalVars>>

StorageNext ==
  \/ GetWallet
  \/ \E w \in StoredWallets : SaveWallet(w)
  \/ ClearWallet
  \/ ~blocked /\ CorruptEntry
StoreInit ==
  /\ corrupt = FALSE
  /\ blocked = FALSE
  /\ returned = NoResult
  /\ isConnecting = FALSE

\* the two hooks before any call, nothing stored
HooksInit ==
  /\ wallet = NoWallet
  /\ legacy = FALSE
  /\ suiAddressRef = NoAddr
  /\ refBy = "none"
  /\ lastOp = "none"
  /\ solPc = "idle"
  /\ address = NoAddr
  /\ error = "none"

WalletInit == HooksInit /\ StoreInit

WalletNext ==
  \/ \E e \in PortalMsgs : HandlePortalMessage(e)
  \/ SolanaConnect
  \/ \E c \in Creds : SolanaConnected(c)
  \/ SolanaConnectFailed
  \/ \E ok \in BOOLEAN : SolanaDisconnect(ok)
  \/ ResetWallet
  \/ SuiConnect
  \/ SuiDisconnect
  \/ CorruptEntry

(***************************************************************************)
(* SDK: useSuiPasskey.signAndExecuteTransaction.                           *)
(***************************************************************************)
\* the transactions signed; each is passed to one call
Txs == {"tx1", "tx2"}
NoTx == "none"

\* the `error` field of the portal's terminal message of type t: handleSignSui
\* calls handleError('Failed to sign Sui transaction', error, true)
PortalErrorText(t) == IF t = "error" THEN "Failed to sign Sui transaction" ELSE "none"

\* byte lengths: the raw r||s signature, a compressed secp256r1 public key,
\* and a stored key that is one byte short
SignatureBytes == 64
CompressedKeyBytes == 33
ShortKeyBytes == 32

\* a stored passkey.publicKey whose base64 decodes to ShortKeyBytes bytes
ShortKey == <<"publicKey32", CredA>>

\* Buffer.from(publicKey, 'base64').length
KeyBytes(k) ==
  IF k = NoKey THEN 0 ELSE IF k = ShortKey THEN ShortKeyBytes ELSE CompressedKeyBytes

\* new Uint8Array([0x02, ...signatureBytes, ...publicKeyBytes]).length
UserSignatureBytes(k) == 1 + SignatureBytes + KeyBytes(k)

\* what the portal window (or another window) can post into the host page:
\* sigFor is the transaction the signature was produced for, message the
\* `message` field of an error payload (the portal's payload has none)
HostMsgs(p) ==
  {[origin |-> PortalOrigin, type |-> t, sigFor |-> p.tx, message |-> "none",
    error |-> PortalErrorText(t)] :
     t \in (IF p.open THEN {"sui-sign-result", "error", "WALLET_CONNECTED"} ELSE {})}
  \cup
  {[origin |-> OtherOrigin, type |-> t, sigFor |-> x, message |-> "none",
    error |-> PortalErrorText(t)] :
     t \in {"sui-sign-result", "error"}, x \in Txs}

\* no message settled the call yet
NoHostMsg ==
  [origin |-> "none", type |-> "none", sigFor |-> NoTx, message |-> "none", error |-> "none"]

\* handleMessage without its origin check
HandlersAnyOrigin(e) ==
  IF e.type \in {"sui-sign-result", "error"}
    THEN {c \in Txs : sgListening[c]}
    ELSE {}

\* the calls whose handleMessage acts on event e: registered, and the origin
\* check passes, and the type is one of the two handled
Handlers(e) ==
  IF e.origin = PortalOrigin /\ e.type \in {"sui-sign-result", "error"}
    THEN {c \in Txs : sgListening[c]}
    ELSE {}

\* new Error(event.data.message || 'Signing failed')
ErrorOf(e) == IF e.message # "none" THEN e.message ELSE "Signing failed"

\* the state a call is in after handleMessage settled its promise with e and
\* the code after the await ran up to executeTransactionBlock
AfterResult(e) ==
  IF e.type = "error" THEN "failed"
  ELSE IF ~wallet.present \/ wallet.passkey.publicKey = NoKey THEN "failed"
  ELSE "executing"

\* the message of the Error thrown on that way, if any
ErrAfterResult(e) ==
  IF e.type = "error" THEN ErrorOf(e)
  ELSE IF ~wallet.present \/ wallet.passkey.publicKey = NoKey
         THEN "Public key not found in storage"
  ELSE "none"

\* signAndExecuteTransaction(c) up to the await of the portal's result:
\* the address check, setIsSigning(true), transaction.build, window.open
\* under the fixed name 'portal', addEventListener, setTimeout(300000).
SignAndExecute(c, outcome) ==
  /\ sgPc[c] = "idle"
  /\ IF address = NoAddr
       THEN /\ sgPc' = [sgPc EXCEPT ![c] = "failed"]
            /\ sgErr' = [sgErr EXCEPT ![c] = "Wallet not connected"]
            /\ UNCHANGED <<isSigning, error, sgListening, sgTimer, popup>>
       ELSE IF outcome = "opened"
         THEN /\ sgPc' = [sgPc EXCEPT ![c] = "waiting"]
              /\ isSigning' = TRUE
              /\ error' = "none"
              /\ popup' = [open |-> TRUE, tx |-> c]
              /\ sgListening' = [sgListening EXCEPT ![c] = TRUE]
              /\ sgTimer' = [sgTimer EXCEPT ![c] = TRUE]
              /\ UNCHANGED sgErr
         ELSE /\ sgPc' = [sgPc EXCEPT ![c] = "failed"]
              /\ sgErr' = [sgErr EXCEPT ![c] = outcome]
              /\ error' = outcome
              /\ isSigning' = FALSE
              /\ UNCHANGED <<sgListening, sgTimer, popup>>
  /\ UNCHANGED <<wallet, legacy, lastOp, storeVars, suiAddressRef, refBy, solPc, address, submitted, signHist,
                 requesterVars, responderVars, portalVars>>

\* the outcomes of the steps before the wait: the popup opened, the build
\* threw, or window.open returned null
StartOutcomes ==
  {"opened", "Build failed",
   "Failed to open portal window. Please check if popups are blocked by your browser."}

\* A message event in the host page: handleMessage of every waiting call runs
\* on it (clearTimeout, removeEventListener, portalWindow.close(), resolve or
\* reject), then the code after the await, up to executeTransactionBlock.
HostMessage(e) ==
  LET H == Handlers(e)
  IN  /\ sgTimer' = [c \in Txs |-> IF c \in H THEN FALSE ELSE sgTimer[c]]
      /\ sgListening' = [c \in Txs |-> IF c \in H THEN FALSE ELSE sgListening[c]]
      /\ popup' = IF H # {} THEN [popup EXCEPT !.open = FALSE] ELSE popup
      /\ sgPc' = [c \in Txs |-> IF c \in H THEN AfterResult(e) ELSE sgPc[c]]
      /\ sgErr' = [c \in Txs |-> IF c \in H THEN ErrAfterResult(e) ELSE sgErr[c]]
      /\ submitted' = [c \in Txs |->
                        IF c \in H /\ AfterResult(e) = "executing" THEN e.sigFor
                                                                  ELSE submitted[c]]
      /\ userSig' = [c \in Txs |->
                      IF c \in H /\ AfterResult(e) = "executing"
                        THEN UserSignatureBytes(wallet.passkey.publicKey)
                        ELSE userSig[c]]
      /\ heard' = [c \in Txs |-> IF c \in H THEN e ELSE heard[c]]
      /\ dropped' = (dropped \/ (e.origin # PortalOrigin /\ \E c \in Txs : sgListening[c]))
      /\ error' = IF \E c \in H : AfterResult(e) = "failed" THEN ErrAfterResult(e) ELSE error
      /\ isSigning' = IF \E c \in H : AfterResult(e) = "failed" THEN FALSE ELSE isSigning
      /\ corrupt' = IF H # {} /\ e.type # "error" THEN FALSE ELSE corrupt
      /\ UNCHANGED <<wallet, legacy, lastOp, blocked, returned, isConnecting, suiAddressRef, refBy, solPc, address,
                     requesterVars, responderVars, portalVars>>

\* the 5-minute timer without its reject
SigningTimeoutNoReject(c) ==
  /\ sgTimer[c]
  /\ sgTimer' = [sgTimer EXCEPT ![c] = FALSE]
  /\ sgListening' = [sgListening EXCEPT ![c] = FALSE]
  /\ popup' = [popup EXCEPT !.open = FALSE]
  /\ UNCHANGED <<sgPc, sgErr, error, isSigning, wallet, legacy, lastOp, storeVars, suiAddressRef, refBy, solPc,
                 address, submitted, signHist, requesterVars, responderVars, portalVars>>

\* The 5-minute timer fires: removeEventListener, portalWindow.close(),
\* reject(new Error('Signing timeout')); then catch and finally.
SigningTimeout(c) ==
  /\ sgTimer[c]
  /\ sgTimer' = [sgTimer EXCEPT ![c] = FALSE]
  /\ sgListening' = [sgListening EXCEPT ![c] = FALSE]
  /\ popup' = [popup EXCEPT !.open = FALSE]
  /\ sgPc' = [sgPc EXCEPT ![c] = "failed"]
  /\ sgErr' = [sgErr EXCEPT ![c] = "Signing timeout"]
  /\ error' = "Signing timeout"
  /\ isSigning' = FALSE
  /\ UNCHANGED <<wallet, legacy, lastOp, storeVars, suiAddressRef, refBy, solPc, address, submitted, signHist,
                 requesterVars, responderVars, portalVars>>

\* client.executeTransactionBlock returns or throws; finally setIsSigning(false)
ExecuteReturns(c, ok) ==
  /\ sgPc[c] = "executing"
  /\ sgPc' = [sgPc EXCEPT ![c] = IF ok THEN "done" ELSE "failed"]
  /\ sgErr' = [sgErr EXCEPT ![c] = IF ok THEN "none" ELSE "Execution failed"]
  /\ error' = IF ok THEN error ELSE "Execution failed"
  /\ isSigning' = FALSE
  /\ UNCHANGED <<wallet, legacy, lastOp, storeVars, suiAddressRef, refBy, solPc, address, sgListening, sgTimer,
                 submitted, signHist, popup, requesterVars, responderVars, portalVars>>

\* the user closes the portal window
PopupClosed ==
  /\ popup.open
  /\ popup' = [popup EXCEPT !.open = FALSE]
  /\ UNCHANGED <<walletVars, isSigning, sgPc, sgListening, sgTimer, sgErr, submitted, signHist,
                 requesterVars, responderVars, portalVars>>

SignInit ==
  /\ isSigning = FALSE
  /\ sgPc = [c \in Txs |-> "idle"]
  /\ sgListening = [c \in Txs |-> FALSE]
  /\ sgTimer = [c \in Txs |-> FALSE]
  /\ sgErr = [c \in Txs |-> "none"]
  /\ submitted = [c \in Txs |-> NoTx]
  /\ userSig = [c \in Txs |-> 0]
  /\ heard = [c \in Txs |-> NoHostMsg]
  /\ dropped = FALSE
  /\ popup = [open |-> FALSE, tx |-> NoTx]

SignNext ==
  \/ \E c \in Txs, o \in StartOutcomes : SignAndExecute(c, o)
  \/ \E e \in HostMsgs(popup) : HostMessage(e)
  \/ \E c \in Txs : SigningTimeout(c)
  \/ \E c \in Txs, ok \in BOOLEAN : ExecuteReturns(c, ok)
  \/ PopupClosed
  \/ ResetWallet
  \/ \E e \in PortalMsgs : HandlePortalMessage(e)

(***************************************************************************)
(* Portal: platform detection and ceremony options (utils.ts, webauthn).   *)
(***************************************************************************)
\* what the regular expressions of detectPlatform look for in userAgent:
\* "iPhone" stands for iPad|iPhone|iPod, "WebView" for (WebView|wkwebview),
\* "Mobile" for Mobile|Tablet
UaTokens == {"iPhone", "Android", "Safari", "Chrome", "WebView", "wv", "Edg",
             "Firefox", "Mobile"}

\* values of navigator.platform
Platforms == {"MacIntel", "Win32", "iPhone"}

\* /Windows|Mac|Linux/.test(platform)
DesktopName(pf) == pf = "MacIntel"

\* the environments of a portal window: userAgent (by the tokens it
\* contains), platform, maxTouchPoints > 1, window.chrome?.runtime,
\* window.ReactNativeWebView, and whether detection throws
AllEnvs ==
  [ua : SUBSET UaTokens, platform : Platforms, touch : BOOLEAN,
   chromeRuntime : BOOLEAN, rnWebView : BOOLEAN, throws : BOOLEAN]

\* a WebAuthnPlatformOptions value
Options(att, uv, rk, t) ==
  [authenticatorAttachment |-> att, userVerification |-> uv, residentKey |-> rk,
   timeout |-> t]

\* window.__webauthn_options === undefined
NoOptions == Options("unset", "unset", "unset", 0)

DEFAULT_TIMEOUT == 30000
RelaxedTimeout == 45000
CustomTabsTimeout == 60000

getIOSWebAuthnOptions(isWebView) ==
  IF isWebView THEN Options("platform", "preferred", "preferred", RelaxedTimeout)
               ELSE Options("platform", "required", "required", DEFAULT_TIMEOUT)

getAndroidWebAuthnOptions(isCustomTabs, isWebView) ==
  IF isCustomTabs THEN Options("unset", "preferred", "preferred", CustomTabsTimeout)
  ELSE IF isWebView THEN Options("platform", "preferred", "preferred", RelaxedTimeout)
  ELSE Options("platform", "required", "required", DEFAULT_TIMEOUT)

getDesktopWebAuthnOptions(browser) ==
  IF browser = "firefox" THEN Options("platform", "preferred", "preferred", RelaxedTimeout)
                         ELSE Options("platform", "required", "required", DEFAULT_TIMEOUT)

getDefaultWebAuthnOptions == Options("platform", "preferred", "preferred", RelaxedTimeout)

\* the browser detectPlatform names on a desktop
DesktopBrowser(ua) ==
  IF "Chrome" \in ua /\ "Edg" \notin ua THEN "chrome"
  ELSE IF "Safari" \in ua /\ "Chrome" \notin ua THEN "safari"
  ELSE IF "Firefox" \in ua THEN "firefox"
  ELSE IF "Edg" \in ua THEN "edge"
  ELSE "unknown"

\* detectPlatform(): type, browser and webauthnOptions of PlatformInfo
detectPlatform(e) ==
  IF "iPhone" \in e.ua \/ (e.platform = "MacIntel" /\ e.touch)
    THEN LET isSafari == "Safari" \in e.ua /\ "Chrome" \notin e.ua
             isWebView == "WebView" \in e.ua
         IN  [type |-> "ios",
              browser |-> IF isWebView THEN "webview"
                          ELSE IF isSafari THEN "safari" ELSE "unknown",
              webauthnOptions |-> getIOSWebAuthnOptions(isWebView)]
  ELSE IF "Android" \in e.ua
    THEN LET isCustomTabs == "wv" \in e.ua /\ "Chrome" \in e.ua /\ ~e.chromeRuntime
             isWebView == "wv" \in e.ua \/ e.rnWebView
             isChrome == "Chrome" \in e.ua
         IN  [type |-> "android",
              browser |-> IF isCustomTabs THEN "custom-tabs"
                          ELSE IF isWebView THEN "webview"
                          ELSE IF isChrome THEN "chrome" ELSE "unknown",
              webauthnOptions |-> getAndroidWebAuthnOptions(isCustomTabs, isWebView)]
  ELSE IF DesktopName(e.platform) \/ "Mobile" \notin e.ua
    THEN [type |-> "desktop",
          browser |-> DesktopBrowser(e.ua),
          webauthnOptions |-> getDesktopWebAuthnOptions(DesktopBrowser(e.ua))]
  ELSE [type |-> "unknown", browser |-> "unknown",
        webauthnOptions |-> getDefaultWebAuthnOptions]

\* platformInfo before setPlatformInfo
NoPlatform == [type |-> "none", browser |-> "none", webauthnOptions |-> NoOptions]

\* getWebAuthnEnvironment().options: the published options, with defaults
\* for what is not published
getWebAuthnEnvironment(pub) ==
  IF pub = NoOptions
    THEN Options("unset", "preferred", "preferred", DEFAULT_TIMEOUT)
    ELSE pub

\* the userVerification and timeout each function passes to
\* navigator.credentials.create / get ("unset", 0: the field is not passed)
CeremonyKinds == {"signUp", "authenticateWithPasskey", "signMessage", "signIn",
                  "signSuiTransaction"}

CeremonyUv(kind, pub) ==
  IF kind = "signUp" THEN getWebAuthnEnvironment(pub).userVerification
  ELSE IF kind \in {"signIn", "signSuiTransaction"} THEN "required"
  ELSE "unset"

CeremonyTimeout(kind, pub) ==
  IF kind = "signUp" THEN getWebAuthnEnvironment(pub).timeout
  ELSE IF kind \in {"signIn", "signSuiTransaction"} THEN DEFAULT_TIMEOUT
  ELSE 0

\* the record kept of a hardware ceremony that was started: its kind, whether
\* a credential was at hand, the options passed and the options published
CeremonyStarted(kind, hasCred, pub) ==
  [kind |-> kind, hasCred |-> hasCred,
   userVerification |-> CeremonyUv(kind, pub),
   timeout |-> CeremonyTimeout(kind, pub),
   published |-> getWebAuthnEnvironment(pub)]

(***************************************************************************)
(* Portal: the challenge of signSuiTransaction.                            *)
(***************************************************************************)
\* length of the txBytes texts and the number of calls compared
MaxLen == 4
SuiCalls == {1, 2}

\* characters of a txBytes text: two of the base64 alphabet, and a space,
\* which is not in the decoder's alphabet
Base64Chars == {"A", "/", " "}

\* the 6-bit value of a base64 character
B64Value(ch) == IF ch = "A" THEN 0 ELSE 63

RECURSIVE SeqsUpTo(_, _)
SeqsUpTo(S, n) ==
  IF n = 0 THEN {<<>>}
  ELSE LET shorter == SeqsUpTo(S, n - 1)
       IN  shorter \cup {Append(q, x) : q \in {t \in shorter : Len(t) = n - 1}, x \in S}

\* the txBytes texts of the model
Base64Texts == SeqsUpTo(Base64Chars, MaxLen)

IsBase64Char(ch) == ch # " "

\* base64clean of Buffer: characters outside the alphabet are removed
base64clean(str) == SelectSeq(str, IsBase64Char)

\* the bytes of groups of 4 characters; 3 left-over characters give 2 bytes,
\* 2 give 1 byte, a single one gives none
RECURSIVE toByteArray(_)
toByteArray(c) ==
  IF Len(c) < 2 THEN <<>>
  ELSE LET v1 == B64Value(c[1])
           v2 == B64Value(c[2])
           b1 == v1 * 4 + v2 \div 16
       IN  IF Len(c) = 2 THEN <<b1>>
           ELSE LET v3 == B64Value(c[3])
                    b2 == (v2 % 16) * 16 + v3 \div 4
                IN  IF Len(c) = 3 THEN <<b1, b2>>
                    ELSE LET b3 == (v3 % 4) * 64 + B64Value(c[4])
                         IN  <<b1, b2, b3>> \o toByteArray(SubSeq(c, 5, Len(c)))

\* Buffer.from(txBytes, "base64")
FromBase64(str) == toByteArray(base64clean(str))

\* new Uint8Array([0, 0, 0])
intentBytes == <<0, 0, 0>>

\* the output length asked of blake2b
HashBytes == 32

\* blake2b(message, { dkLen }): a digest of dkLen bytes, taken as
\* collision-free (the digest stands for the message it was computed from)
blake2b(message, dkLen) == [dkLen |-> dkLen, of |-> message]

\* the challenge without the transaction in the hashed message
ChallengeOfIntentOnly(str) ==
  [intent |-> intentBytes, hash |-> blake2b(intentBytes, HashBytes)]

\* the challenge of signSuiTransaction: intent || blake2b(intent || txData)
ChallengeOf(str) ==
  LET txData == FromBase64(str)
      intentMessage == intentBytes \o txData
  IN  [intent |-> intentBytes, hash |-> blake2b(intentMessage, HashBytes)]

\* challenge.length
ChallengeBytes(ch) == Len(ch.intent) + ch.hash.dkLen

NoChallenge == [intent |-> <<>>, hash |-> blake2b(<<>>, 0)]

(***************************************************************************)
(* Portal: the messages shown for a failed ceremony.                       *)
(***************************************************************************)
\* the kinds of ceremony failure
ErrorKinds == {"cancelled", "hardware", "unsupported", "timeout"}

\* the DOMException name a ceremony rejects with: a cancelled and a timed-out
\* ceremony both reject with NotAllowedError
ErrorName(kind) ==
  CASE kind = "cancelled" -> "NotAllowedError"
    [] kind = "timeout" -> "NotAllowedError"
    [] kind = "hardware" -> "NotReadableError"
    [] kind = "unsupported" -> "NotSupportedError"

\* the text of the exception
ErrorText(kind) ==
  CASE kind \in {"cancelled", "timeout"} ->
         "The operation either timed out or was not allowed."
    [] kind = "hardware" ->
         "An unknown error occurred while talking to the credential manager."
    [] kind = "unsupported" -> "The operation is not supported."

\* the Error values of a kind: error.message is the text alone, or the text
\* after the name (an Error rethrown as `${name}: ${message}`)
ErrorsOf(kind) ==
  {[name |-> ErrorName(kind), named |-> b, text |-> ErrorText(kind)] : b \in BOOLEAN}

\* error.message
MessageOf(err) == IF err.named THEN <<err.name, ": ", err.text>> ELSE <<err.text>>

\* errorMessage.includes(name)
Includes(err, name) == err.named /\ err.name = name

getWebAuthnErrorMessage(err, customTabs) ==
  IF Includes(err, "NotAllowedError")
    THEN IF customTabs
           THEN <<"Passkey creation blocked in Custom Tabs. Please open in Chrome browser.">>
           ELSE <<"Passkey creation was cancelled or blocked. Please try again.">>
  ELSE IF Includes(err, "SecurityError")
    THEN <<"Security error occurred. Please ensure you're on a secure (HTTPS) connection.">>
  ELSE IF Includes(err, "NotSupportedError")
    THEN IF customTabs
           THEN <<"Passkeys not supported in Custom Tabs. Please open in Chrome browser.">>
           ELSE <<"Passkeys are not supported in this browser or environment.">>
  ELSE IF Includes(err, "InvalidStateError")
    THEN <<"A passkey already exists for this account. Please try signing in instead.">>
  ELSE IF Includes(err, "ConstraintError")
    THEN <<"Passkey creation failed due to device constraints. Please try again.">>
  ELSE <<"Passkey operation failed: ">> \o MessageOf(err)

handleCustomTabsError(err) ==
  IF err.name \in {"NotReadableError", "NotAllowedError"}
    THEN <<"Authentication failed in Custom Tabs environment.">>
  ELSE IF err.name = "NotSupportedError"
    THEN <<"Passkeys not supported in Custom Tabs. Please open in Chrome browser.">>
  ELSE <<"Passkey creation failed: ">> \o MessageOf(err) \o <<"Error type: ", err.name>>

\* no message was shown
NoMessage == [web |-> <<>>, customTabs |-> <<>>]

\* A ceremony fails in the way `kind` and the page maps the Error to the
\* message it shows.
ShowError(kind) ==
  /\ shown[kind] = NoMessage
  /\ shown' = [shown EXCEPT ![kind] =
                 [web |-> getWebAuthnErrorMessage(thrown[kind], inCustomTabs),
                  customTabs |-> handleCustomTabsError(thrown[kind])]]
  /\ UNCHANGED <<inCustomTabs, thrown, challengeVars, customTabsVars, topology, currentEnvironment, stored,
                 url, reqNo, hPc, pCreds, isLoading, pIsSigning, ceremony, clicks, out,
                 refused, env, platformInfo, published, pStore, authPc, ceremonies, refusals,
                 requesterVars, responderVars, sdkVars>>

\* a page that is not in Custom Tabs and has shown no error
ErrorsIdle ==
  /\ inCustomTabs = FALSE
  /\ thrown = [k \in ErrorKinds |-> [name |-> ErrorName(k), named |-> FALSE,
                                     text |-> ErrorText(k)]]
  /\ shown = [k \in ErrorKinds |-> NoMessage]

(***************************************************************************)
(* Portal: the WalletAction component (one signing surface).               *)
(***************************************************************************)
\* number of requests (page loads with a new URL) one surface receives
MaxRequests == 2
\* number of times the Sign button is pressed for one request
MaxClicks == 2

\* the signing requests a host can pass in the URL of the surface
Urls == [action : {"sign", "sign_sui", "connect"}, message : BOOLEAN, sui_tx : BOOLEAN]
NoUrl == [action |-> "none", message |-> FALSE, sui_tx |-> FALSE]

\* the window topologies of a surface
Topologies == {"iframe", "popup", "webview"}

\* detectEnvironment(): "expo" when window.ReactNativeWebView is set
detectEnvironment == IF topology = "webview" THEN "expo" ELSE "browser"

\* where handleError posts to: window.parent in a frame, else the WebView
\* bridge when window.ReactNativeWebView is set, else window.opener
HostTarget ==
  IF topology = "iframe" THEN "parent"
  ELSE IF topology = "webview" THEN "bridge"
  ELSE "opener"

\* where handleSuccess posts responseData to: window.parent in a frame, the
\* bridge only when responseData.environment is 'expo', else window.opener
\* if there is one
SuccessTarget(environment) ==
  IF topology = "iframe" THEN "parent"
  ELSE IF environment = "expo" /\ topology = "webview" THEN "bridge"
  ELSE IF topology = "popup" THEN "opener"
  ELSE "none"

\* a terminal message and the window it was posted to
TerminalMsg(type) == [type |-> type, to |-> HostTarget]

\* handleError: post { type: 'error', error, details } to the host
HandleError(o) == Append(o, TerminalMsg("error"))

\* handleSuccess for a signature: post SIGNATURE_CREATED or 'sui-sign-result';
\* the responseData of handleSign / handleSignSui has no environment field
HandleSuccess(o, u) ==
  Append(o, [type |-> IF u.sui_tx THEN "sui-sign-result" ELSE "SIGNATURE_CREATED",
             to |-> SuccessTarget("undefined")])

\* which branch handleAction takes for URL u
Branch(u) ==
  IF u.action = "connect" THEN "connect"
  ELSE IF u.action = "sign" /\ u.message THEN "sign"
  ELSE IF u.sui_tx /\ u.action = "sign_sui" THEN "sign_sui"
  ELSE "invalid"

\* The surface is opened or navigated with URL u (window.open under the name
\* 'portal' reuses the open window): the component mounts with fresh state,
\* initializePlatform publishes the ceremony options unless detection throws,
\* loadCredentials runs, and handleAction runs up to its first await.
LoadPage(u) ==
  /\ reqNo < MaxRequests
  /\ reqNo' = reqNo + 1
  /\ url' = u
  /\ isLoading' = FALSE
  /\ pIsSigning' = FALSE
  /\ ceremony' = 0
  /\ clicks' = 0
  /\ pCreds' = stored
  /\ CASE Branch(u) = "sign" /\ topology = "iframe" ->
            hPc' = "syncing" /\ out' = <<>> /\ refused' = FALSE
       [] Branch(u) = "sign" /\ topology # "iframe" ->
            /\ hPc' = "done"
            /\ out' = IF stored THEN <<>> ELSE HandleError(<<>>)
            /\ refused' = ~stored
       [] Branch(u) = "sign_sui" ->
            hPc' = "done" /\ out' = <<>> /\ refused' = ~stored
       [] Branch(u) = "connect" ->
            hPc' = "done" /\ out' = <<>> /\ refused' = FALSE
       [] OTHER ->
            hPc' = "done" /\ out' = <<>> /\ refused' = TRUE
  /\ authPc' = "none"
  /\ platformInfo' = IF env.throws THEN NoPlatform ELSE detectPlatform(env)
  /\ published' = IF env.throws THEN NoOptions ELSE detectPlatform(env).webauthnOptions
  /\ currentEnvironment' = IF Branch(u) = "connect" /\ stored THEN detectEnvironment
                                                                ELSE "browser"
  /\ UNCHANGED <<topology, stored, env, pStore, ceremonies, refusals,
                 utilVars, requesterVars, responderVars, sdkVars>>

\* handleAction after `await requestCredentialsFromParent(3, ...)`: the
\* credential of the parent, or null
ParentCredentialReturns(got) ==
  /\ hPc = "syncing"
  /\ hPc' = "done"
  /\ IF got THEN pCreds' = TRUE /\ UNCHANGED <<out, refused>>
            ELSE out' = HandleError(out) /\ refused' = TRUE /\ UNCHANGED pCreds
  /\ UNCHANGED <<topology, currentEnvironment, stored, url, reqNo, isLoading, pIsSigning, ceremony, clicks,
                 env, platformInfo, published, pStore, authPc, ceremonies, refusals,
                 utilVars, requesterVars, responderVars, sdkVars>>

\* ActionButtons: the Sign button is rendered (the card is replaced by
\* LoadingState while isLoading), shown for a message or a Sui transaction,
\* and enabled
SignButtonEnabled ==
  /\ hPc # "none"
  /\ ~isLoading
  /\ url.message \/ url.sui_tx
  /\ pCreds

\* The Sign button is pressed: handleSignSui when the URL has sui_tx, else
\* handleSign, up to the await of the ceremony.
ClickSign ==
  /\ SignButtonEnabled
  /\ clicks < MaxClicks
  /\ clicks' = clicks + 1
  /\ isLoading' = TRUE
  /\ pIsSigning' = TRUE
  /\ ceremony' = ceremony + 1
  /\ ceremonies' = ceremonies \cup
       {CeremonyStarted(IF url.sui_tx THEN "signSuiTransaction" ELSE "signMessage",
                        pCreds, published)}
  /\ UNCHANGED <<topology, currentEnvironment, stored, url, reqNo, hPc, pCreds, out, refused,
                 env, platformInfo, published, pStore, authPc, refusals,
                 utilVars, requesterVars, responderVars, sdkVars>>

\* The ceremony resolves or rejects: handleSuccess or handleError, then the
\* finally block.
CeremonyReturns(ok) ==
  /\ ceremony > 0
  /\ ceremony' = ceremony - 1
  /\ out' = IF ok THEN HandleSuccess(out, url) ELSE HandleError(out)
  /\ isLoading' = FALSE
  /\ pIsSigning' = FALSE
  /\ UNCHANGED <<topology, currentEnvironment, stored, url, reqNo, hPc, pCreds, clicks, refused,
                 env, platformInfo, published, pStore, authPc, ceremonies, refusals,
                 utilVars, requesterVars, responderVars, sdkVars>>

\* the portal's persisted credential: CREDENTIAL_ID and PUBLIC_KEY
StoredRecord(id, pk) == [id |-> id, pk |-> pk]
NoStored == StoredRecord("", NoKey)

\* saveCredential(credentialId, publicKey)
saveCredential(id, pk) == StoredRecord(id, pk)

\* saveCredentialId(credentialId): PUBLIC_KEY is left as it is
saveCredentialId(st, id) == [st EXCEPT !.id = id]

\* environments of the portal page
DesktopChrome ==
  [ua |-> {"Chrome", "Safari"}, platform |-> "MacIntel", touch |-> FALSE,
   chromeRuntime |-> FALSE, rnWebView |-> FALSE, throws |-> FALSE]
DesktopFirefox == [DesktopChrome EXCEPT !.ua = {"Firefox"}, !.platform = "Win32"]
IosWebView == [DesktopChrome EXCEPT !.ua = {"iPhone", "WebView", "Mobile"}, !.platform = "iPhone"]
AndroidCustomTabs ==
  [DesktopChrome EXCEPT !.ua = {"Android", "wv", "Chrome", "Safari", "Mobile"},
                        !.platform = "Win32"]
ReactNativeWebView ==
  [DesktopChrome EXCEPT !.ua = {"Android", "Chrome", "Safari", "Mobile"},
                        !.platform = "Win32", !.rnWebView = TRUE]
Envs ==
  {DesktopChrome, IosWebView, AndroidCustomTabs, [DesktopFirefox EXCEPT !.throws = TRUE],
   ReactNativeWebView}

\* ActionButtons: the Sign In and Sign Up buttons are rendered and enabled
ConnectButtonsShown ==
  /\ hPc # "none"
  /\ ~isLoading
  /\ ~(url.message \/ url.sui_tx)
  /\ Len(out) < MaxClicks

\* handleSuccess for a connection: post WALLET_CONNECTED; the responseData
\* carries the environment the handler was called with (currentEnvironment)
HandleConnected(o) ==
  Append(o, [type |-> "WALLET_CONNECTED", to |-> SuccessTarget(currentEnvironment)])

\* authenticateWithPasskey without its check of CREDENTIAL_ID
AuthenticateNeverThrows(st) == FALSE

\* authenticateWithPasskey: `if (!credentialId) throw`
AuthenticateThrows(st) == st.id = ""

\* handleSignIn / handleSignUp up to the await of signIn / signUp
StartCeremony(kind) ==
  /\ isLoading' = TRUE
  /\ authPc' = kind
  /\ ceremonies' = ceremonies \cup {CeremonyStarted(kind, pStore.id # "", published)}
  /\ UNCHANGED <<out, refusals>>

\* handleAuthenticate up to the await of navigator.credentials.get, or to
\* the end when authenticateWithPasskey throws
StartAuthenticate ==
  IF AuthenticateThrows(pStore)
    THEN /\ refusals' = refusals \cup {"authenticateWithPasskey"}
         /\ out' = HandleError(out)
         /\ isLoading' = FALSE
         /\ UNCHANGED <<authPc, ceremonies>>
    ELSE /\ isLoading' = TRUE
         /\ authPc' = "authenticate"
         /\ ceremonies' = ceremonies \cup
              {CeremonyStarted("authenticateWithPasskey", pStore.id # "", published)}
         /\ UNCHANGED <<out, refusals>>

\* The Sign In button is pressed (onSignIn): authenticate with the stored
\* credential and key, create a passkey when the key is missing, else signIn.
ClickSignIn ==
  /\ ConnectButtonsShown
  /\ IF pCreds /\ pStore.pk # NoKey THEN StartAuthenticate
     ELSE IF pCreds THEN StartCeremony("signUp")
     ELSE StartCeremony("signIn")
  /\ UNCHANGED <<topology, currentEnvironment, stored, url, reqNo, hPc, pCreds, pIsSigning, ceremony, clicks,
                 refused, env, platformInfo, published, pStore,
                 utilVars, requesterVars, responderVars, sdkVars>>

\* The Sign Up button is pressed (onSignUp): handleSignUp
ClickSignUp ==
  /\ ConnectButtonsShown
  /\ StartCeremony("signUp")
  /\ UNCHANGED <<topology, currentEnvironment, stored, url, reqNo, hPc, pCreds, pIsSigning, ceremony, clicks,
                 refused, env, platformInfo, published, pStore,
                 utilVars, requesterVars, responderVars, sdkVars>>

\* useWalletActions.handleUniversalConnect: authenticateWithPasskey is called
\* whatever is stored; it throws, or the assertion ceremony is run
UniversalConnect ==
  /\ hPc # "none"
  /\ IF AuthenticateThrows(pStore)
       THEN /\ refusals' = refusals \cup {"authenticateWithPasskey"}
            /\ UNCHANGED ceremonies
       ELSE /\ ceremonies' = ceremonies \cup
                 {CeremonyStarted("authenticateWithPasskey", pStore.id # "", published)}
            /\ UNCHANGED refusals
  /\ UNCHANGED <<topology, currentEnvironment, stored, url, reqNo, hPc, pCreds, isLoading, pIsSigning, ceremony,
                 clicks, out, refused, env, platformInfo, published, pStore, authPc,
                 utilVars, requesterVars, responderVars, sdkVars>>

\* The awaited connect ceremony resolves with the passkey c the user used,
\* or rejects: the rest of handleSignIn / handleSignUp / handleAuthenticate.
AuthReturns(ok, c) ==
  /\ authPc # "none"
  /\ authPc' = "none"
  /\ IF ok
       THEN /\ out' = HandleConnected(out)
            /\ UNCHANGED isLoading
            /\ CASE authPc = "signIn" ->
                      /\ pStore' = saveCredentialId(pStore, c)
                      /\ stored' = TRUE
                      /\ pCreds' = TRUE
                 [] authPc = "signUp" ->
                      /\ pStore' = saveCredential(c, PublicKeyOf(c))
                      /\ stored' = TRUE
                      /\ pCreds' = TRUE
                 [] OTHER -> UNCHANGED <<pStore, stored, pCreds>>
       ELSE /\ out' = HandleError(out)
            /\ isLoading' = FALSE
            /\ UNCHANGED <<pStore, stored, pCreds>>
  /\ UNCHANGED <<topology, currentEnvironment, url, reqNo, hPc, pIsSigning, ceremony, clicks, refused,
                 env, platformInfo, published, ceremonies, refusals,
                 utilVars, requesterVars, responderVars, sdkVars>>

\* another portal window on the same localStorage completes handleSignUp
\* for a new passkey c
OtherWindowSignUp(c) ==
  /\ pStore # saveCredential(c, PublicKeyOf(c))
  /\ pStore' = saveCredential(c, PublicKeyOf(c))
  /\ stored' = TRUE
  /\ UNCHANGED <<topology, currentEnvironment, url, reqNo, hPc, pCreds, isLoading, pIsSigning, ceremony, clicks,
                 out, refused, env, platformInfo, published, authPc, ceremonies, refusals,
                 utilVars, requesterVars, responderVars, sdkVars>>

\* signSuiTransaction(credentialId, txBytes) of call i up to the await of
\* navigator.credentials.get: build the challenge, start the ceremony
SignSuiTransaction(i) ==
  /\ challenge[i] = NoChallenge
  /\ challenge' = [challenge EXCEPT ![i] = ChallengeOf(txBytes[i])]
  /\ ceremonies' = ceremonies \cup {CeremonyStarted("signSuiTransaction", TRUE, published)}
  /\ UNCHANGED <<txBytes, errorVars, customTabsVars, topology, currentEnvironment, stored, url, reqNo, hPc, pCreds,
                 isLoading, pIsSigning, ceremony, clicks, out, refused, env, platformInfo,
                 published, pStore, authPc, refusals,
                 requesterVars, responderVars, sdkVars>>

ChallengeIdle ==
  /\ txBytes = [i \in SuiCalls |-> <<>>]
  /\ challenge = [i \in SuiCalls |-> NoChallenge]

\* the calls of createPasskeyForCustomTabs a page makes
CustomTabsCalls == {1, 2}

\* the customTabsOptions constant of createPasskeyForCustomTabs
customTabsOptions == Options("unset", "preferred", "preferred", CustomTabsTimeout)

\* createPasskeyForCustomTabs up to `await import('../utils/webauthn')`
CustomTabsStart(i) ==
  /\ hPc # "none"
  /\ ctPc[i] = "idle"
  /\ ctPc' = [ctPc EXCEPT ![i] = "importing"]
  /\ optionsBefore' = IF \A j \in CustomTabsCalls : ctPc[j] = "idle" THEN published
                                                                    ELSE optionsBefore
  /\ UNCHANGED <<originalOptions, challengeVars, errorVars, topology, currentEnvironment,
                 stored, url, reqNo, hPc, pCreds, isLoading, pIsSigning, ceremony, clicks,
                 out, refused, env, platformInfo, published, pStore, authPc, ceremonies,
                 refusals, requesterVars, responderVars, sdkVars>>

\* ... from the import to the await of signUp: keep the published options in
\* originalOptions, publish customTabsOptions, start the creation ceremony
CustomTabsPatch(i) ==
  /\ ctPc[i] = "importing"
  /\ ctPc' = [ctPc EXCEPT ![i] = "patched"]
  /\ originalOptions' = [originalOptions EXCEPT ![i] = published]
  /\ published' = customTabsOptions
  /\ ceremonies' = ceremonies \cup {CeremonyStarted("signUp", pStore.id # "", customTabsOptions)}
  /\ UNCHANGED <<optionsBefore, challengeVars, errorVars, topology, currentEnvironment,
                 stored, url, reqNo, hPc, pCreds, isLoading, pIsSigning, ceremony, clicks,
                 out, refused, env, platformInfo, pStore, authPc,
                 refusals, requesterVars, responderVars, sdkVars>>

\* ... signUp resolves or rejects: the finally block restores originalOptions
CustomTabsReturns(i) ==
  /\ ctPc[i] = "patched"
  /\ ctPc' = [ctPc EXCEPT ![i] = "done"]
  /\ published' = originalOptions[i]
  /\ UNCHANGED <<originalOptions, optionsBefore, challengeVars, errorVars, topology,
                 currentEnvironment, stored, url, reqNo, hPc, pCreds, isLoading, pIsSigning,
                 ceremony, clicks, out, refused, env, platformInfo, pStore, authPc,
                 ceremonies, refusals, requesterVars, responderVars, sdkVars>>

CustomTabsIdle ==
  /\ ctPc = [i \in CustomTabsCalls |-> "idle"]
  /\ originalOptions = [i \in CustomTabsCalls |-> NoOptions]
  /\ optionsBefore = NoOptions

PortalInitIn(E) ==
  /\ env \in E
  /\ topology \in (IF env.rnWebView THEN {"webview"} ELSE Topologies \ {"webview"})
  /\ currentEnvironment = "browser"
  /\ stored \in BOOLEAN
  /\ url = NoUrl
  /\ reqNo = 0
  /\ hPc = "none"
  /\ pCreds = FALSE
  /\ isLoading = FALSE
  /\ pIsSigning = FALSE
  /\ ceremony = 0
  /\ clicks = 0
  /\ out = <<>>
  /\ refused = FALSE
  /\ platformInfo = NoPlatform
  /\ published = NoOptions
  /\ pStore = IF stored THEN StoredRecord(CredA, PublicKeyOf(CredA)) ELSE NoStored
  /\ authPc = "none"
  /\ ceremonies = {}
  /\ refusals = {}

\* no utility function has been called
UtilInit == ChallengeIdle /\ ErrorsIdle /\ CustomTabsIdle

PortalInit == PortalInitIn(Envs) /\ UtilInit

PortalNext ==
  \/ \E u \in Urls : LoadPage(u)
  \/ \E got \in BOOLEAN : ParentCredentialReturns(got)
  \/ ClickSign
  \/ \E ok \in BOOLEAN : CeremonyReturns(ok)
  \/ ClickSignIn
  \/ ClickSignUp
  \/ UniversalConnect
  \/ \E ok \in BOOLEAN, c \in Creds : AuthReturns(ok, c)
  \/ \E c \in Creds : OtherWindowSignUp(c)

(***************************************************************************)
(* Specifications.                                                         *)
(***************************************************************************)
\* the portal's surface before any page is loaded, in a popup without credentials
PortalIdle == PortalInit /\ topology = "popup" /\ ~stored /\ env = DesktopChrome

Init == RequesterInit /\ ResponderInit /\ WalletInit /\ SignInit /\ PortalInit

\* the requester's calls, beside a parent that holds a credential
InitRequester ==
  RequesterInit /\ ResponderInit /\ credentials = <<CredA>> /\ WalletInit /\ SignInit /\ PortalIdle

\* the responder, beside an embedded window that makes no call
InitResponder ==
  RequesterInit /\ inIframe /\ ResponderInit /\ WalletInit /\ SignInit /\ PortalIdle

Next == RequesterNext \/ ResponderNext \/ WalletNext \/ SignNext \/ PortalNext

Spec == Init /\ [][Next]_vars

\* the requester against every message its window can receive
SpecRequester == InitRequester /\ [][RequesterNext]_vars

\* the requester when the timers it arms fire
FairRequester ==
  /\ SpecRequester
  /\ \A r \in Calls : WF_vars(RetryTimeout(r)) /\ WF_vars(FinalTimeout(r))

\* the responder against every message its window can receive
SpecResponder == InitResponder /\ [][ResponderNext]_vars

\* the responder when the timers sendResponse arms fire
FairResponder ==
  /\ SpecResponder
  /\ \A j \in 1..MaxHandled : WF_vars(SendResponseTimer(j))

\* the other subsystems at rest
SyncIdle == RequesterInit /\ inIframe /\ ResponderInit /\ credentials = <<CredA>>

\* the responses of the parent's handler to the requests of the window
ParentResponses ==
  {e \in ChildMsgs : e.type = "CREDENTIALS_RESPONSE" /\ e.origin = PortalOrigin
                       /\ e.requestId # NoId /\ e.data = CredData(CredA)}

\* calls of the two functions over time, each function called repeatedly
FreshNext ==
  \/ \E r \in Calls : RequestFromParent(r, now)
  \/ \E r \in Calls : RetryTimeout(r)
  \/ \E r \in Calls : FinalTimeout(r)
  \/ \E e \in ParentResponses : MessageEvent(e, FALSE)
  \/ \E r \in Calls : CallAgain(r)
  \/ Tick

SpecFresh == InitRequester /\ [][FreshNext]_vars

\* the two hooks of a host page over the stored wallet record
InitWallet == SyncIdle /\ WalletInit /\ SignInit /\ PortalIdle

SpecWallet == InitWallet /\ [][WalletNext]_vars

\* PasskeyStorage alone, with storage readable or disabled
InitStorage ==
  /\ SyncIdle /\ SignInit /\ PortalIdle /\ HooksInit
  /\ corrupt = FALSE
  /\ blocked \in BOOLEAN
  /\ returned = NoResult
  /\ isConnecting = FALSE

SpecStorage == InitStorage /\ [][StorageNext]_vars

\* a page connected to the Sui wallet of credential A
InitSign ==
  /\ SyncIdle
  /\ PortalIdle
  /\ SignInit
  /\ \E k \in {PublicKeyOf(CredA), ShortKey} :
       wallet = [WalletInfoOf(ConnectResult(CredA), NoWallet, SuiAddr(CredA))
                   EXCEPT !.passkey.publicKey = k]
  /\ legacy = TRUE
  /\ suiAddressRef = SuiAddr(CredA)
  /\ refBy = PortalOrigin
  /\ lastOp = "connect"
  /\ StoreInit
  /\ solPc = "idle"
  /\ address \in {NoAddr, SuiAddr(CredA)}
  /\ error = "none"

\* signAndExecuteTransaction of a connected page
SpecSign == InitSign /\ [][SignNext]_vars

\* one signing surface of the portal
InitPortal == SyncIdle /\ WalletInit /\ SignInit /\ PortalInit

SpecPortal == InitPortal /\ [][PortalNext]_vars

\* platform detection at the mount of the portal page, in every environment
InitPlatform ==
  /\ SyncIdle /\ WalletInit /\ SignInit
  /\ PortalInitIn({e \in AllEnvs : ~e.throws})
  /\ UtilInit
  /\ topology # "iframe"
  /\ ~stored

PlatformNext == LoadPage([action |-> "connect", message |-> FALSE, sui_tx |-> FALSE])

SpecPlatform == InitPlatform /\ [][PlatformNext]_vars

\* signSuiTransaction called for two transactions, each given as any text
InitChallenge ==
  /\ SyncIdle /\ WalletInit /\ SignInit
  /\ PortalInitIn({DesktopChrome})
  /\ topology = "popup"
  /\ stored
  /\ txBytes \in [SuiCalls -> Base64Texts]
  /\ challenge = [i \in SuiCalls |-> NoChallenge]
  /\ ErrorsIdle
  /\ CustomTabsIdle

ChallengeNext == \E i \in SuiCalls : SignSuiTransaction(i)

SpecChallenge == InitChallenge /\ [][ChallengeNext]_vars

\* the failures of ceremonies in one environment, each with any of its Errors
InitErrors ==
  /\ SyncIdle /\ WalletInit /\ SignInit
  /\ PortalInitIn({DesktopChrome})
  /\ topology = "popup"
  /\ stored
  /\ ChallengeIdle
  /\ CustomTabsIdle
  /\ inCustomTabs \in BOOLEAN
  /\ thrown \in [ErrorKinds -> UNION {ErrorsOf(k) : k \in ErrorKinds}]
  /\ \A k \in ErrorKinds : thrown[k] \in ErrorsOf(k)
  /\ shown = [k \in ErrorKinds |-> NoMessage]

ErrorsNext == \E k \in ErrorKinds : ShowError(k)

SpecErrors == InitErrors /\ [][ErrorsNext]_vars

\* createPasskeyForCustomTabs called twice on a page, in any environment
InitCustomTabs ==
  /\ SyncIdle /\ WalletInit /\ SignInit
  /\ PortalInitIn(Envs)
  /\ UtilInit

CustomTabsNext ==
  \/ /\ \A i \in CustomTabsCalls : ctPc[i] = "idle"
     /\ \E u \in {w \in Urls : w.action = "connect"} : LoadPage(u)
  \/ \E i \in CustomTabsCalls : CustomTabsStart(i)
  \/ \E i \in CustomTabsCalls : CustomTabsPatch(i)
  \/ \E i \in CustomTabsCalls : CustomTabsReturns(i)

SpecCustomTabs == InitCustomTabs /\ [][CustomTabsNext]_vars

\* ... when the session timer of each call fires
FairSign == SpecSign /\ \A c \in Txs : WF_vars(SigningTimeout(c))

(***************************************************************************)
(* Claims about the credential-sync requester.                             *)
(***************************************************************************)
Fulfilled(r) == how[r] = "response"
Failed(r) == how[r] = "timeout"

\* C1: a pending request with requestId X is fulfilled only by a message
\* whose requestId equals X; no request is fulfilled by a message with a
\* different or a missing requestId.
C1_FulfilledOnlyByOwnRequestId ==
  \A r \in Calls : Fulfilled(r) => by[r].requestId = messageId[r]

\* C2: every handler checks the sender's origin against the allow-list before
\* using the payload: no request is fulfilled by a message of another origin
\* and no credentials are posted to a window of another origin.
C2_OnlyAllowedOrigins ==
  /\ \A r \in Calls : Fulfilled(r) => by[r].origin \in AllowedOrigins
  /\ \A p \in posted : p.target \in AllowedOrigins

\* C7: every call settles. In an iframe a pending call eventually settles,
\* with a credential or with null, even if no response is ever delivered;
\* outside an iframe the call settles with null at once and posts nothing.
C7_EveryCallSettles ==
  /\ \A r \in Calls : (pc[r] = "awaiting") ~> (pc[r] = "settled")
  /\ [](\A r \in Calls :
          /\ pc[r] = "settled" => result[r] \in {Null, CredA}
          /\ ~inIframe => /\ pc[r] # "awaiting"
                          /\ sent[r] = 0
                          /\ pc[r] = "settled" => result[r] = Null)

\* C7 witness: a call that was never answered has failed after its last attempt.
C7_Witness ==
  \E r \in Calls : Failed(r) /\ result[r] = Null /\ sent[r] = maxRetries + 1

\* C8: attempt accounting. During attempt k (retryCount = k - 1) exactly k
\* requests have been posted, so a response arriving during attempt k leaves
\* exactly k requests sent; a call fails only after the first attempt and
\* its maxRetries retries, and nothing is posted once the call has settled.
C8_AttemptAccounting ==
  /\ [](\A r \in Calls :
          /\ pc[r] = "awaiting" \/ Fulfilled(r) \/ Failed(r) => sent[r] = retryCount[r] + 1
          /\ sent[r] <= maxRetries + 1
          /\ Failed(r) => sent[r] = maxRetries + 1)
  /\ [][\A r \in Calls : pc[r] = "settled" =>
          sent'[r] = sent[r] /\ retryCount'[r] = retryCount[r]]_vars

\* C8 witness: two attempts timed out, the response arrived during the third.
C8_Witness ==
  \E r \in Calls : Fulfilled(r) /\ result[r] = CredA /\ retryCount[r] = 2 /\ sent[r] = 3

\* C10: fulfilment is terminal and happens once. A fulfilled call has made
\* exactly one acknowledgment (whether or not its postMessage threw), has no
\* timer and no listener; later responses change neither its acknowledgments,
\* its requests nor its result.
C10_FulfilmentOnce ==
  /\ [](\A r \in Calls :
          /\ acks[r] = IF Fulfilled(r) THEN 1 ELSE 0
          /\ Fulfilled(r) => timeoutId[r] = "none" /\ ~listening[r] /\ pc[r] = "settled")
  /\ [][\A r \in Calls : Fulfilled(r) =>
          /\ acks'[r] = acks[r]
          /\ sent'[r] = sent[r]
          /\ result'[r] = result[r]
          /\ by'[r] = by[r]
          /\ Fulfilled(r)']_vars

\* C10 witness: a call is fulfilled although an acknowledgment threw, and a
\* further credentials message has reached the window since.
C10_Witness ==
  \E r \in Calls : Fulfilled(r) /\ ackThrew /\ late /\ acks[r] = 1

(***************************************************************************)
(* Claims about the SDK hooks.                                             *)
(***************************************************************************)
\* C3: whenever a wallet record is stored, every populated chain entry
\* (solana, sui) has the credentialId of the passkey entry.
C3_ChainEntriesMatchPasskey ==
  wallet.present =>
    /\ wallet.solana.present => wallet.solana.credentialId = wallet.passkey.credentialId
    /\ wallet.sui.present => wallet.sui.credentialId = wallet.passkey.credentialId

\* C4: with two signAndExecuteTransaction calls in flight, each call is settled
\* only by the portal result produced for its own transaction: one message
\* never settles both calls, and no transaction is submitted with a signature
\* produced for another transaction.
C4_OwnResultOnly ==
  /\ [](\A c \in Txs : submitted[c] \in {NoTx, c})
  /\ [][Cardinality({c \in Txs : sgPc[c] = "waiting" /\ sgPc'[c] # "waiting"}) <= 1]_vars

\* C9: a call that opened the popup leaves the waiting state: on a
\* 'sui-sign-result' message it continues, on an 'error' message it rejects,
\* and when the session timer fires it rejects with 'Signing timeout'. On
\* each way out the listener is removed, the timer is gone and the popup is
\* closed, and when the call settles isSigning becomes false.
C9_WaitingEnds ==
  /\ \A c \in Txs : (sgPc[c] = "waiting") ~> (sgPc[c] # "waiting")
  /\ [](\A c \in Txs : sgPc[c] = "waiting" => sgListening[c] /\ sgTimer[c])
  /\ [][\A c \in Txs : sgPc[c] = "waiting" /\ sgPc'[c] # "waiting" =>
          /\ ~sgListening'[c] /\ ~sgTimer'[c] /\ ~popup'.open
          /\ \/ sgPc'[c] = "executing" /\ submitted'[c] # NoTx
             \/ sgPc'[c] = "failed" /\ sgErr'[c] \in {"Signing failed", "Signing timeout",
                                                       "Public key not found in storage"}]_vars
  /\ [][\A c \in Txs : sgPc[c] \in {"waiting", "executing"} /\ sgPc'[c] \in {"done", "failed"} =>
          ~isSigning']_vars

\* C9 witness: a call was rejected by the session timer; it holds no listener,
\* the popup is closed and isSigning is false.
C9_Witness ==
  \E c \in Txs : /\ sgPc[c] = "failed" /\ sgErr[c] = "Signing timeout"
                 /\ ~sgListening[c] /\ ~popup.open /\ ~isSigning

(***************************************************************************)
(* Claims about the portal.                                                *)
(***************************************************************************)
\* C5: a second signing request arriving at the surface while a ceremony is
\* pending is rejected with an error message to the host and leaves the
\* request being served and its ceremony as they were.
C5_SecondRequestRejected ==
  [][ceremony > 0 /\ reqNo' # reqNo =>
       /\ url' = url
       /\ ceremony' = ceremony
       /\ out' = HandleError(out)]_vars

\* the portal has finished processing the request of the page: handleAction
\* refused it, or a ceremony was started and none is in flight
Processed == hPc = "done" /\ ceremony = 0 /\ (refused \/ clicks > 0)

\* C6: for every signing request the portal has finished processing, by
\* ceremony success, ceremony failure or refusal, exactly one terminal
\* message was posted to the host.
C6_ExactlyOneTerminalMessage ==
  Processed => Cardinality({i \in 1..Len(out) : out[i].to # "none"}) = 1

\* C14: any two distinct calls of the same function use different requestIds.
C14_FreshRequestIds ==
  \A r \in Calls : \A i, j \in 1..Len(issued[r]) : i # j => issued[r][i] # issued[r][j]

(***************************************************************************)
(* Claims about the Sui codec path and the host-side handlers.             *)
(***************************************************************************)
\* C11: a call submits an envelope to the chain client only with a
\* user_signature of 1 flag byte + 64 signature bytes + 33 public-key bytes;
\* with a stored public key of another length the call fails and submits
\* nothing.
C11_EnvelopeWellFormed ==
  \A c \in Txs :
    /\ sgPc[c] \in {"executing", "done"} =>
         userSig[c] = 1 + SignatureBytes + CompressedKeyBytes
    /\ (heard[c].type = "sui-sign-result"
          /\ wallet.present /\ KeyBytes(wallet.passkey.publicKey) # CompressedKeyBytes)
         => sgPc[c] = "failed" /\ submitted[c] = NoTx

\* C12: when the portal's terminal `error` message settles a call, the Error
\* the call rejects with carries the text the portal put into the message.
C12_PortalReasonReachesHost ==
  \A c \in Txs :
    heard[c].type = "error" /\ heard[c].origin = PortalOrigin =>
      sgErr[c] = heard[c].error

\* C13: a message whose origin is not the origin of portalUrl is dropped by
\* the host-side handlers: it settles no pending call, closes no popup,
\* cancels no timer and never sets the captured Sui address.
C13_ForeignMessagesDropped ==
  /\ [](\A c \in Txs : heard[c].origin \in {"none", PortalOrigin})
  /\ [](refBy \in {"none", PortalOrigin})
  /\ [][\A e \in HostMsgs(popup) :
          e.origin # PortalOrigin /\ HostMessage(e) =>
            UNCHANGED <<sgPc, sgListening, sgTimer, popup, sgErr, submitted>>]_vars
  /\ [][\A e \in PortalMsgs :
          e.origin # PortalOrigin /\ HandlePortalMessage(e) =>
            UNCHANGED suiAddressRef]_vars

\* a message of another origin reached a call that is still waiting, with its
\* timer pending and the popup open
C13_Witness ==
  /\ dropped
  /\ \E c \in Txs : sgPc[c] = "waiting" /\ sgListening[c] /\ sgTimer[c] /\ popup.open

\* C16: after useSolanaPasskey.disconnect or resetWallet no wallet record and
\* no key of the legacy key set is stored; useSuiPasskey.disconnect removes
\* the sui entry and leaves the passkey and solana entries as they were.
C16_WalletLifecycle ==
  /\ [](lastOp \in {"disconnect", "disconnect rejected", "resetWallet"} =>
          wallet = NoWallet /\ ~legacy)
  /\ [][lastOp' = "sui disconnect" =>
          /\ ~wallet'.sui.present
          /\ wallet'.present = wallet.present
          /\ wallet'.passkey = wallet.passkey
          /\ wallet'.solana = wallet.solana]_vars

(***************************************************************************)
(* Claims about the portal's terminal messages.                            *)
(***************************************************************************)
\* the host window of a topology: window.parent of a frame, window.opener of
\* a popup, the bridge of a React Native WebView
TopologyTarget ==
  IF topology = "iframe" THEN "parent"
  ELSE IF topology = "popup" THEN "opener"
  ELSE "bridge"

\* C21: in a given window topology every terminal message, success and error
\* alike, is sent to the host window of that topology.
C21_SameTargetForSuccessAndError ==
  \A i \in 1..Len(out) : out[i].to = TopologyTarget

(***************************************************************************)
(* Claims about the portal's stored credential and its ceremonies.         *)
(***************************************************************************)
\* C15: the stored PUBLIC_KEY is absent or is the key created together with
\* the stored CREDENTIAL_ID.
C15_KeyBelongsToCredential ==
  pStore.pk = NoKey \/ pStore.pk = PublicKeyOf(pStore.id)

\* a surface the detection classifies as restricted: custom-tabs or webview
Restricted(info) == info.browser \in {"custom-tabs", "webview"}

\* C17: the options published for a detected platform follow the policy:
\* preferred/preferred and a timeout of at least 60000 ms on a restricted
\* surface, required/required and a shorter timeout on every full browser,
\* and a timeout above 0.
C17_OptionsFollowPolicy ==
  platformInfo # NoPlatform =>
    LET o == platformInfo.webauthnOptions
    IN  /\ o.timeout > 0
        /\ Restricted(platformInfo) =>
             /\ o.userVerification = "preferred" /\ o.residentKey = "preferred"
             /\ o.timeout >= CustomTabsTimeout
        /\ ~Restricted(platformInfo) =>
             /\ o.userVerification = "required" /\ o.residentKey = "required"
             /\ o.timeout < CustomTabsTimeout

\* C18: every ceremony is started with the userVerification and the timeout
\* of the options published at that time.
C18_CeremoniesUsePublishedOptions ==
  \A cer \in ceremonies :
    /\ cer.userVerification = cer.published.userVerification
    /\ cer.timeout = cer.published.timeout

\* C19: when detection threw at initialisation, every ceremony runs with
\* userVerification 'preferred' and a timeout of at least 60000 ms.
C19_ConservativeProfileAfterThrow ==
  env.throws =>
    \A cer \in ceremonies :
      /\ cer.userVerification = "preferred"
      /\ cer.timeout >= CustomTabsTimeout

C22_ChallengeDerivation ==
  \A i, j \in SuiCalls :
    challenge[i] # NoChallenge =>
      /\ ChallengeBytes(challenge[i]) = 35
      /\ challenge[i].intent = <<0, 0, 0>>
      /\ challenge[i].hash = blake2b(<<0, 0, 0>> \o FromBase64(txBytes[i]), 32)
      /\ challenge[j] # NoChallenge =>
           (challenge[i] = challenge[j]) = (FromBase64(txBytes[i]) = FromBase64(txBytes[j]))

\* two transactions of different bytes, one of them three bytes long, were
\* given their challenges
C22_Witness ==
  /\ challenge[1] # NoChallenge /\ challenge[2] # NoChallenge
  /\ Len(FromBase64(txBytes[1])) = 3
  /\ FromBase64(txBytes[1]) # FromBase64(txBytes[2])
  /\ challenge[1] # challenge[2]

(***************************************************************************)
(* Claims about the error messages.                                        *)
(***************************************************************************)
\* C23: within one environment the messages shown for a cancelled ceremony,
\* a hardware communication failure, an unsupported environment and a
\* ceremony timeout are pairwise different, by getWebAuthnErrorMessage and
\* by handleCustomTabsError.
C23_FourDistinctMessages ==
  \A k1, k2 \in ErrorKinds :
    k1 # k2 /\ shown[k1] # NoMessage /\ shown[k2] # NoMessage =>
      /\ shown[k1].web # shown[k2].web
      /\ shown[k1].customTabs # shown[k2].customTabs

C25_GetWalletNeverThrows == ~returned.threw

\* C25 (amended): while localStorage is accessible getWallet does not throw;
\* for an entry that is not valid JSON it returns null and removes the
\* entry (nothing is stored afterwards, so the next getWallet returns null
\* too); with nothing stored it returns null; otherwise it returns the
\* stored record.
C25_GetWalletSafeWhenReadable ==
  /\ [](~blocked => ~returned.threw)
  /\ [][~blocked /\ lastOp' = "getWallet" /\ returned' # returned =>
          /\ corrupt => returned'.value = NoWallet /\ ~corrupt' /\ wallet' = NoWallet
          /\ ~corrupt => returned'.value = wallet /\ wallet' = wallet /\ ~corrupt']_vars

\* getWallet was called on an entry that is not valid JSON and returned null
C25_Witness ==
  /\ lastOp = "getWallet"
  /\ returned.called /\ returned.corruptEntry /\ ~returned.threw
  /\ returned.value = NoWallet
  /\ ~corrupt

\* C27: signAndExecuteTransaction opens the portal popup and requests the
\* ceremony only when the stored record has a passkey public key.
C27_NoPopupWithoutPublicKey ==
  [][\A c \in Txs :
       sgPc[c] = "idle" /\ sgPc'[c] = "waiting" =>
         wallet.present /\ wallet.passkey.publicKey # NoKey]_vars

\* C28: whenever useSuiPasskey reports isConnected (address non-null), the
\* stored record exists and has a passkey entry and a sui entry with that
\* address.
C28_ConnectedImpliesStoredSui ==
  address # NoAddr =>
    /\ wallet.present
    /\ wallet.passkey.credentialId # ""
    /\ wallet.sui.present /\ wallet.sui.address = address

(***************************************************************************)
(* Claims about the portal's busy flag and the Custom Tabs options.        *)
(***************************************************************************)
\* C26: isLoading is true exactly while a handleSign, handleSignSui,
\* handleSignIn, handleSignUp or handleAuthenticate operation is in flight,
\* and false again once it has completed, by success or by failure.
C26_BusyFlagTracksOperation ==
  isLoading = (ceremony > 0 \/ authPc # "none")

\* C29: once every started createPasskeyForCustomTabs call has completed,
\* window.__webauthn_options equals the value it had before the first call
\* started, also when two calls overlap.
C29_OptionsRestored ==
  (/\ \E i \in CustomTabsCalls : ctPc[i] = "done"
   /\ \A i \in CustomTabsCalls : ctPc[i] \in {"idle", "done"})
    => published = optionsBefore

(***************************************************************************)
(* Claims about the responder's retransmissions.                           *)
(***************************************************************************)
\* C30: every response to a CREDENTIALS_REQUEST received while a credential
\* is stored carries the request's requestId and the first stored credential
\* and is transmitted exactly 3 times, whether or not an acknowledgment
\* arrives; with no credential stored nothing is sent, and a
\* SYNC_CREDENTIALS_ACK never triggers a message.
C30_ThreeTransmissionsPerRequest ==
  /\ [](\A p \in posted :
          /\ Len(credentials) > 0
          /\ p.resp.data = CredData(credentials[1])
          /\ \E j \in 1..Len(jobs) :
               /\ jobs[j].request.type \in {"CREDENTIALS_REQUEST", "SYNC_CREDENTIALS"}
               /\ p.resp.requestId = jobs[j].request.requestId
               /\ p.target = jobs[j].request.origin)
  /\ [](Len(credentials) = 0 => posted = {} /\ jobs = <<>>)
  /\ [](\A j \in 1..Len(jobs) : jobs[j].attempts <= 3)
  /\ \A j \in 1..MaxHandled :
       [](Len(jobs) >= j => <>[](Len(jobs) >= j /\ jobs[j].attempts = 3))
  /\ [][\A m \in ParentMsgs :
          m.type = "SYNC_CREDENTIALS_ACK" /\ HandleMessage(m) =>
            UNCHANGED <<jobs, posted>>]_vars
  /\ [][\A m \in ParentMsgs :
          (/\ m.type = "CREDENTIALS_REQUEST" /\ HandleMessage(m)
           /\ Len(credentials) > 0) =>
            /\ Len(jobs') = Len(jobs) + 1
            /\ jobs'[Len(jobs')] = [request |-> m, attempts |-> 1]
            /\ [resp |-> SyncMsg("CREDENTIALS_RESPONSE", m.requestId,
                                 CredData(credentials[1]), PortalOrigin),
                target |-> m.origin] \in posted']_vars

\* C30: a request was answered three times beside a received acknowledgment,
\* from a store of two credentials.
C30_Witness ==
  /\ "SYNC_CREDENTIALS_ACK" \in received
  /\ Len(credentials) = 2
  /\ \E j \in 1..Len(jobs) :
       /\ jobs[j].request.type = "CREDENTIALS_REQUEST"
       /\ jobs[j].attempts = 3

=============================================================================
